---- MODULE Spec2Model ----
(***************************************************************************)
(* students-api: the three student handlers (New, GetById, GetList) over   *)
(* the storage contract, and the signal-driven shutdown of main.           *)
(*                                                                         *)
(* Every HTTP request is served on its own goroutine; a handler is         *)
(* modelled as its positions between the points where it touches the       *)
(* shared store.  The storage backend, the Student type and the response   *)
(* package are not part of the sources at hand and are modelled from the   *)
(* design document.                                                        *)
(***************************************************************************)
EXTENDS Integers, Sequences, FiniteSets, TLC

VARIABLES
    reqs,      \* the requests received so far, one record per handler invocation
    store,     \* rows of the students table, in insertion order
    seq,       \* the engine's AUTOINCREMENT counter (largest id ever assigned)
    mainPc,    \* position of func main
    srvPc,     \* position of the goroutine running server.ListenAndServe
    conns,     \* connections of the http.Server: "none", "active", "done", "cut"
    atSignal,  \* history: the connections that were active when the signal came
    ctxDone,   \* the 5 second shutdown context has expired
    exit       \* how the process ended: "running", "fatal", "returned"

vars == <<reqs, store, seq, mainPc, srvPc, conns, atSignal, ctxDone, exit>>
hvars == <<reqs, store, seq>>
mvars == <<mainPc, srvPc, conns, atSignal, ctxDone, exit>>

(***************************************************************************)
(* Bounds                                                                  *)
(***************************************************************************)
MaxReqs == 3      \* handler invocations in one behaviour
MaxInFlight == 2  \* handler invocations running at the same time
MaxConns == 3     \* connections the server accepts in one behaviour

(***************************************************************************)
(* HTTP status codes (net/http)                                            *)
(***************************************************************************)
StatusOK == 200
StatusCreated == 201
StatusBadRequest == 400
StatusInternalServerError == 500

(***************************************************************************)
(* Values                                                                  *)
(***************************************************************************)
\* types.Student and its zero value (var student types.Student)
Student(id, name, email, age) == [id |-> id, name |-> name, email |-> email, age |-> age]
ZeroStudent == Student(0, "", "", 0)

NoErr == "nil"
ErrEOF == "EOF"
ErrUnexpectedEOF == "unexpected EOF"
ErrSyntax == "strconv.ParseInt: invalid syntax"
ErrNoRows == "student not found"
ErrEngine == "engine failure"

\* A request body: its text is empty, cut off in the middle of a value, or a
\* JSON object; obj holds the members the object carries.
EmptyBody == [text |-> "empty", obj |-> [k \in {} |-> 0]]
TruncatedBody == [text |-> "truncated", obj |-> [k \in {} |-> 0]]
ObjectBody(o) == [text |-> "object", obj |-> o]

Bodies ==
    { EmptyBody, TruncatedBody,
      ObjectBody([name |-> "ann", email |-> "a@b.com", age |-> 20]),
      ObjectBody([name |-> "", email |-> "a@b.com", age |-> 20]),
      ObjectBody([k \in {} |-> 0]) }

\* Path identifiers, as the characters of r.PathValue("id")
Paths == { <<"1">>, <<"0", "2">>, <<"a", "b", "c">>, <<"1", "a">> }

(***************************************************************************)
(* encoding/json: Decode into a zero Student.  Members absent from the     *)
(* object leave the field at its zero value.                               *)
(***************************************************************************)
Member(o, k, zero) == IF k \in DOMAIN o THEN o[k] ELSE zero

Decode(body) ==
    CASE body.text = "empty" -> [err |-> ErrEOF, student |-> ZeroStudent]
      [] body.text = "truncated" -> [err |-> ErrUnexpectedEOF, student |-> ZeroStudent]
      [] OTHER ->
           [err |-> NoErr,
            student |-> Student(0, Member(body.obj, "name", ""),
                                   Member(body.obj, "email", ""),
                                   Member(body.obj, "age", 0))]

(***************************************************************************)
(* strconv.ParseInt(id, 10, 64): an optional sign, then one or more        *)
(* decimal digits and nothing else.                                        *)
(***************************************************************************)
DigitVal(c) ==
    CASE c = "0" -> 0 [] c = "1" -> 1 [] c = "2" -> 2 [] c = "3" -> 3
      [] c = "4" -> 4 [] c = "5" -> 5 [] c = "6" -> 6 [] c = "7" -> 7
      [] c = "8" -> 8 [] c = "9" -> 9 [] OTHER -> -1

RECURSIVE ParseDigits(_, _)
ParseDigits(s, acc) ==
    IF s = <<>> THEN acc
    ELSE IF DigitVal(Head(s)) < 0 THEN -1
    ELSE ParseDigits(Tail(s), acc * 10 + DigitVal(Head(s)))

ParseInt(s) ==
    LET signed == s # <<>> /\ Head(s) \in {"+", "-"}
        digits == IF signed THEN Tail(s) ELSE s
        n      == IF digits = <<>> THEN -1 ELSE ParseDigits(digits, 0)
    IN  IF n < 0 THEN [err |-> ErrSyntax, val |-> 0]
        ELSE [err |-> NoErr, val |-> IF signed /\ Head(s) = "-" THEN 0 - n ELSE n]

(***************************************************************************)
(* validator.New().Struct(student): the fields whose `required` rule is    *)
(* violated, in field order.                                               *)
(***************************************************************************)
Required(student, f) == student[f] # (IF f = "age" THEN 0 ELSE "")

Validate(student) ==
    SelectSeq(<<"name", "email", "age">>, LAMBDA f : ~Required(student, f))

(***************************************************************************)
(* package response.  The text of an error is kept as its comma-joined     *)
(* segments.                                                               *)
(***************************************************************************)
GeneralError(err) == [status |-> "error", error |-> <<err>>]

FieldMsg(f) == "field " \o f \o " is required"

ValidationError(errs) ==
    [status |-> "error", error |-> [i \in 1..Len(errs) |-> FieldMsg(errs[i])]]

\* A Go error value handed to the JSON encoder: it has no exported fields
RawError(err) == [json |-> "{}"]

\* WriteJson(w, status, data): one header write and one encoded body on w
WriteJson(w, status, data) == Append(w, [status |-> status, body |-> data])

(***************************************************************************)
(* Storage contract, relational implementation                             *)
(***************************************************************************)
\* CreateStudent: insert one row; the engine assigns the next id
CreateStudent(rows, last, name, email, age, fault) ==
    IF fault
    THEN [rows |-> rows, last |-> last, id |-> 0, err |-> ErrEngine]
    ELSE [rows |-> Append(rows, Student(last + 1, name, email, age)),
          last |-> last + 1, id |-> last + 1, err |-> NoErr]

\* GetStudentById: select by primary key, scan exactly one row
GetStudentById(rows, id, fault) ==
    LET hit == SelectSeq(rows, LAMBDA s : s.id = id)
    IN  IF fault THEN [student |-> ZeroStudent, err |-> ErrEngine]
        ELSE IF hit = <<>> THEN [student |-> ZeroStudent, err |-> ErrNoRows]
        ELSE [student |-> hit[1], err |-> NoErr]

\* GetStudents: select all rows
GetStudents(rows, fault) ==
    IF fault THEN [students |-> <<>>, err |-> ErrEngine]
    ELSE [students |-> rows, err |-> NoErr]

(***************************************************************************)
(* Requests.  net/http runs each handler invocation on its own goroutine;  *)
(* what a handler does before its storage call touches nothing shared and  *)
(* is one step with the arrival of the request.                            *)
(***************************************************************************)
Done(r) == reqs[r].pc = "done"
Finished == { r \in DOMAIN reqs : Done(r) }

Request(kind, body, path) ==
    [kind |-> kind, body |-> body, path |-> path, pc |-> "start",
     student |-> ZeroStudent, students |-> <<>>, intId |-> 0, lastId |-> 0,
     err |-> NoErr,
     w |-> <<>>,              \* the WriteJson calls made on the ResponseWriter
     calls |-> 0,             \* history: storage calls made by this request
     validated |-> FALSE,     \* history: the request reached validation
     after |-> Finished]      \* history: requests answered before this one came

\* The server accepts a request and starts its handler
Receive(q) ==
    /\ Len(reqs) < MaxReqs
    /\ Cardinality(DOMAIN reqs \ Finished) < MaxInFlight
    /\ reqs' = Append(reqs, q)
    /\ UNCHANGED <<store, seq, mvars>>

Set(r, rec) == reqs' = [reqs EXCEPT ![r] = rec]

(***************************************************************************)
(* func New: POST /api/students                                            *)
(***************************************************************************)
\* NewDecode with the io.EOF error passed on as it came
NewDecode_RawEOF(q) ==
    LET d == Decode(q.body)
    IN  IF d.err # NoErr
        THEN [q EXCEPT !.err = d.err, !.pc = "done",
                 !.w = WriteJson(q.w, StatusBadRequest, GeneralError(d.err))]
        ELSE [q EXCEPT !.student = d.student, !.pc = "validate"]

\* Decode the body; an empty body and a decode failure both answer 400
NewDecode(q) ==
    LET d == Decode(q.body)
    IN  IF d.err = ErrEOF
        THEN [q EXCEPT !.err = d.err, !.pc = "done",
                 !.w = WriteJson(q.w, StatusBadRequest, GeneralError("empty body"))]
        ELSE IF d.err # NoErr
        THEN [q EXCEPT !.err = d.err, !.pc = "done",
                 !.w = WriteJson(q.w, StatusBadRequest, GeneralError(d.err))]
        ELSE [q EXCEPT !.student = d.student, !.pc = "validate"]

\* NewValidate with the result of the validation dropped
NewValidate_Ignored(q) == [q EXCEPT !.validated = TRUE, !.pc = "create"]

\* NewValidate without the return after the 400
NewValidate_NoReturn(q) ==
    LET validateErrs == Validate(q.student)
    IN  IF validateErrs # <<>>
        THEN [q EXCEPT !.validated = TRUE, !.pc = "create",
                 !.w = WriteJson(q.w, StatusBadRequest, ValidationError(validateErrs))]
        ELSE [q EXCEPT !.validated = TRUE, !.pc = "create"]

\* Request validation; any violated field answers 400
NewValidate(q) ==
    LET validateErrs == Validate(q.student)
    IN  IF validateErrs # <<>>
        THEN [q EXCEPT !.validated = TRUE, !.pc = "done",
                 !.w = WriteJson(q.w, StatusBadRequest, ValidationError(validateErrs))]
        ELSE [q EXCEPT !.validated = TRUE, !.pc = "create"]

\* The handler from its entry to the storage call
New(body) ==
    LET d == NewDecode(Request("New", body, <<>>))
    IN  Receive(IF d.pc = "done" THEN d ELSE NewValidate(d))

\* NewCreate with name and email passed in each other's place
NewCreate_SwapArgs(r) ==
    /\ reqs[r].kind = "New" /\ reqs[r].pc = "create"
    /\ \E fault \in BOOLEAN :
          LET q == reqs[r]
              res == CreateStudent(store, seq, q.student.email, q.student.name,
                                   q.student.age, fault)
          IN  /\ store' = res.rows
              /\ seq' = res.last
              /\ Set(r, [q EXCEPT !.lastId = res.id, !.err = res.err,
                                  !.calls = @ + 1, !.pc = "respond"])
    /\ UNCHANGED mvars

\* NewCreate with the returned id discarded
NewCreate_DropId(r) ==
    /\ reqs[r].kind = "New" /\ reqs[r].pc = "create"
    /\ \E fault \in BOOLEAN :
          LET q == reqs[r]
              res == CreateStudent(store, seq, q.student.name, q.student.email,
                                   q.student.age, fault)
          IN  /\ store' = res.rows
              /\ seq' = res.last
              /\ Set(r, [q EXCEPT !.err = res.err,
                                  !.calls = @ + 1, !.pc = "respond"])
    /\ UNCHANGED mvars

\* lastId, err := storage.CreateStudent(student.Name, student.Email, student.Age)
NewCreate(r) ==
    /\ reqs[r].kind = "New" /\ reqs[r].pc = "create"
    /\ \E fault \in BOOLEAN :
          LET q == reqs[r]
              res == CreateStudent(store, seq, q.student.name, q.student.email,
                                   q.student.age, fault)
          IN  /\ store' = res.rows
              /\ seq' = res.last
              /\ Set(r, [q EXCEPT !.lastId = res.id, !.err = res.err,
                                  !.calls = @ + 1, !.pc = "respond"])
    /\ UNCHANGED mvars

\* A storage error answers 500 with the error value itself, success 201
NewRespond(r) ==
    /\ reqs[r].kind = "New" /\ reqs[r].pc = "respond"
    /\ LET q == reqs[r]
       IN  IF q.err # NoErr
           THEN Set(r, [q EXCEPT !.pc = "done",
                    !.w = WriteJson(q.w, StatusInternalServerError, RawError(q.err))])
           ELSE Set(r, [q EXCEPT !.pc = "done",
                    !.w = WriteJson(q.w, StatusCreated, [id |-> q.lastId])])
    /\ UNCHANGED <<store, seq, mvars>>

(***************************************************************************)
(* func GetById: GET /api/students/{id}                                    *)
(***************************************************************************)
\* GetByIdParse without the return after the 400
GetByIdParse_NoReturn(q) ==
    LET p == ParseInt(q.path)
    IN  IF p.err # NoErr
        THEN [q EXCEPT !.err = p.err, !.intId = p.val, !.pc = "query",
                 !.w = WriteJson(q.w, StatusBadRequest, GeneralError(p.err))]
        ELSE [q EXCEPT !.intId = p.val, !.pc = "query"]

\* Parse the path identifier; a parse failure answers 400
GetByIdParse(q) ==
    LET p == ParseInt(q.path)
    IN  IF p.err # NoErr
        THEN [q EXCEPT !.err = p.err, !.pc = "done",
                 !.w = WriteJson(q.w, StatusBadRequest, GeneralError(p.err))]
        ELSE [q EXCEPT !.intId = p.val, !.pc = "query"]

\* The handler from its entry to the storage call
GetById(path) == Receive(GetByIdParse(Request("GetById", EmptyBody, path)))

\* student, err := storage.GetStudentById(intId)
GetByIdQuery(r) ==
    /\ reqs[r].kind = "GetById" /\ reqs[r].pc = "query"
    /\ \E fault \in BOOLEAN :
          LET q == reqs[r]
              res == GetStudentById(store, q.intId, fault)
          IN  Set(r, [q EXCEPT !.student = res.student, !.err = res.err,
                               !.calls = @ + 1, !.pc = "respond"])
    /\ UNCHANGED <<store, seq, mvars>>

\* The error branch writes the 500 envelope and does not return: the 200
\* write below it runs on every path.
GetByIdRespond(r) ==
    /\ reqs[r].kind = "GetById" /\ reqs[r].pc = "respond"
    /\ LET q == reqs[r]
           w1 == IF q.err # NoErr
                 THEN WriteJson(q.w, StatusInternalServerError, GeneralError(q.err))
                 ELSE q.w
       IN  Set(r, [q EXCEPT !.pc = "done",
                            !.w = WriteJson(w1, StatusOK, q.student)])
    /\ UNCHANGED <<store, seq, mvars>>

(***************************************************************************)
(* func GetList: GET /api/students                                         *)
(***************************************************************************)
\* The handler from its entry to the storage call
GetList == Receive([Request("GetList", EmptyBody, <<>>) EXCEPT !.pc = "query"])

\* students, err := storage.GetStudents()
GetListQuery(r) ==
    /\ reqs[r].kind = "GetList" /\ reqs[r].pc = "query"
    /\ \E fault \in BOOLEAN :
          LET q == reqs[r]
              res == GetStudents(store, fault)
          IN  Set(r, [q EXCEPT !.students = res.students, !.err = res.err,
                               !.calls = @ + 1, !.pc = "respond"])
    /\ UNCHANGED <<store, seq, mvars>>

\* A storage error answers 500 with the error value itself, success 200
GetListRespond(r) ==
    /\ reqs[r].kind = "GetList" /\ reqs[r].pc = "respond"
    /\ LET q == reqs[r]
       IN  IF q.err # NoErr
           THEN Set(r, [q EXCEPT !.pc = "done",
                    !.w = WriteJson(q.w, StatusInternalServerError, RawError(q.err))])
           ELSE Set(r, [q EXCEPT !.pc = "done",
                    !.w = WriteJson(q.w, StatusOK, q.students)])
    /\ UNCHANGED <<store, seq, mvars>>

(***************************************************************************)
(* func main: the server goroutine, the signal and the shutdown            *)
(***************************************************************************)
Active == { c \in 1..MaxConns : conns[c] = "active" }

\* server.Shutdown has been called: the listener is closed
ShuttingDown == mainPc \in {"waiting", "stopped"}

\* The process ends: whatever is still being served is cut off
Exit(how) ==
    /\ exit' = how
    /\ conns' = [c \in 1..MaxConns |-> IF conns[c] = "active" THEN "cut" ELSE conns[c]]

\* server.ListenAndServe binds the address and starts to accept
Listen ==
    /\ exit = "running" /\ srvPc = "start" /\ ~ShuttingDown
    /\ srvPc' = "listen"
    /\ UNCHANGED <<hvars, mainPc, conns, atSignal, ctxDone, exit>>

\* server.ListenAndServe fails to bind: err is not nil
ListenFail ==
    /\ exit = "running" /\ srvPc = "start" /\ ~ShuttingDown
    /\ srvPc' = "returned"
    /\ UNCHANGED <<hvars, mainPc, conns, atSignal, ctxDone, exit>>

\* The server accepts a connection and serves its request
Accept(c) ==
    /\ exit = "running" /\ srvPc = "listen" /\ ~ShuttingDown
    /\ conns[c] = "none" /\ \A d \in 1..(c - 1) : conns[d] # "none"
    /\ conns' = [conns EXCEPT ![c] = "active"]
    /\ UNCHANGED <<hvars, mainPc, srvPc, atSignal, ctxDone, exit>>

\* The handler of a connection returns; the connection goes idle
Finish(c) ==
    /\ exit = "running" /\ conns[c] = "active"
    /\ conns' = [conns EXCEPT ![c] = "done"]
    /\ UNCHANGED <<hvars, mainPc, srvPc, atSignal, ctxDone, exit>>

\* <-done: SIGINT or SIGTERM arrives
Signal ==
    /\ exit = "running" /\ mainPc = "serve"
    /\ mainPc' = "signalled"
    /\ atSignal' = Active
    /\ UNCHANGED <<hvars, srvPc, conns, ctxDone, exit>>

\* context.WithTimeout(5s); server.Shutdown(ctx) closes the listener
Shutdown ==
    /\ exit = "running" /\ mainPc = "signalled"
    /\ mainPc' = "waiting"
    /\ UNCHANGED <<hvars, srvPc, conns, atSignal, ctxDone, exit>>

\* The 5 seconds of the shutdown context pass
Timeout ==
    /\ exit = "running" /\ mainPc = "waiting" /\ ~ctxDone
    /\ ctxDone' = TRUE
    /\ UNCHANGED <<hvars, mainPc, srvPc, conns, atSignal, exit>>

\* server.Shutdown returns: no connection is active, or the context expired
ShutdownReturn ==
    /\ exit = "running" /\ mainPc = "waiting"
    /\ Active = {} \/ ctxDone
    /\ mainPc' = "stopped"
    /\ UNCHANGED <<hvars, srvPc, conns, atSignal, ctxDone, exit>>

\* main returns
MainReturn ==
    /\ exit = "running" /\ mainPc = "stopped"
    /\ Exit("returned")
    /\ UNCHANGED <<hvars, mainPc, srvPc, atSignal, ctxDone>>

\* After Shutdown, ListenAndServe returns ErrServerClosed at once
ServeClosed ==
    /\ exit = "running" /\ srvPc \in {"start", "listen"} /\ ShuttingDown
    /\ srvPc' = "returned"
    /\ UNCHANGED <<hvars, mainPc, conns, atSignal, ctxDone, exit>>

\* if err != nil { log.Fatal(...) }: every error ListenAndServe returns is non-nil
ServeFatal ==
    /\ exit = "running" /\ srvPc = "returned"
    /\ Exit("fatal")
    /\ UNCHANGED <<hvars, mainPc, srvPc, atSignal, ctxDone>>

Init ==
    /\ reqs = <<>>
    /\ store = <<>>
    /\ seq = 0
    /\ mainPc = "serve"
    /\ srvPc = "start"
    /\ conns = [c \in 1..MaxConns |-> "none"]
    /\ atSignal = {}
    /\ ctxDone = FALSE
    /\ exit = "running"

Next ==
    \/ \E b \in Bodies : New(b)
    \/ \E p \in Paths : GetById(p)
    \/ GetList
    \/ \E r \in DOMAIN reqs : NewCreate(r)
    \/ \E r \in DOMAIN reqs : NewRespond(r)
    \/ \E r \in DOMAIN reqs : GetByIdQuery(r)
    \/ \E r \in DOMAIN reqs : GetByIdRespond(r)
    \/ \E r \in DOMAIN reqs : GetListQuery(r)
    \/ \E r \in DOMAIN reqs : GetListRespond(r)

Spec == Init /\ [][Next]_vars

NextMain ==
    \/ Listen
    \/ ListenFail
    \/ \E c \in 1..MaxConns : Accept(c)
    \/ \E c \in 1..MaxConns : Finish(c)
    \/ Signal
    \/ Shutdown
    \/ Timeout
    \/ ShutdownReturn
    \/ MainReturn
    \/ ServeClosed
    \/ ServeFatal

SpecMain == Init /\ [][NextMain]_vars

(***************************************************************************)
(* Properties                                                              *)
(***************************************************************************)
\* What the client sees: the first WriteHeader sets the status, every
\* WriteJson adds its encoded value to the body.
Status(r) == reqs[r].w[1].status
Requests(kind) == { r \in DOMAIN reqs : reqs[r].kind = kind }

Fields == {"name", "email", "age"}
Zero(f) == IF f = "age" THEN 0 ELSE ""
\* The fields of a submitted object that are absent, empty or zero
Violated(o) == { f \in Fields : f \notin DOMAIN o \/ o[f] = Zero(f) }
ValidBody(b) == b.text = "object" /\ Violated(b.obj) = {}

\* C1: every handler invocation writes exactly one response, on every
\* path; GetById on a storage error writes only the error envelope.
C1_ExactlyOneWrite == \A r \in Finished : Len(reqs[r].w) = 1

\* C2: GetById with an integer id that matches no persisted student answers
\* 500 with the error envelope alone: no 200 is written and no body carries
\* a zero-valued Student.
C2_UnknownIdIs500 ==
    \A r \in Finished \cap Requests("GetById") :
        reqs[r].err = ErrNoRows =>
            /\ Status(r) = StatusInternalServerError
            /\ reqs[r].w[1].body = GeneralError(ErrNoRows)
            /\ \A i \in 1..Len(reqs[r].w) :
                  /\ reqs[r].w[i].status # StatusOK
                  /\ reqs[r].w[i].body # ZeroStudent

\* C3: create round trip.  A Create of a valid (name, email, age) answered
\* 201 with id i, followed by a GetById(i) issued after that answer whose
\* query the engine serves without a fault, answers 200 with the Student
\* (i, name, email, age), whatever other requests ran in between.
C3_RoundTrip ==
    \A c \in Finished \cap Requests("New") :
    \A g \in Finished \cap Requests("GetById") :
        ( /\ ValidBody(reqs[c].body)
          /\ Status(c) = StatusCreated
          /\ c \in reqs[g].after
          /\ ParseInt(reqs[g].path).err = NoErr
          /\ ParseInt(reqs[g].path).val = reqs[c].w[1].body.id
          /\ reqs[g].err # ErrEngine )
        => reqs[g].w = << [status |-> StatusOK,
                           body |-> Student(reqs[c].w[1].body.id,
                                            reqs[c].body.obj.name,
                                            reqs[c].body.obj.email,
                                            reqs[c].body.obj.age)] >>

C3_Witness ==
    \E c \in Finished \cap Requests("New") :
    \E g \in Finished \cap Requests("GetById") :
        /\ ValidBody(reqs[c].body)
        /\ Status(c) = StatusCreated
        /\ reqs[c].w[1].body.id = 2
        /\ c \in reqs[g].after
        /\ reqs[g].path = <<"0", "2">>
        /\ Status(g) = StatusOK
        /\ reqs[g].w[1].body.id = 2

\* C4: concurrent valid Creates against the initially empty store, served
\* by the engine without a fault, are each answered 201 with an id no other
\* Create was given, and a GetList issued after every Create was answered
\* returns exactly as many records as Creates were answered 201.
C4_ConcurrentCreates ==
    /\ \A c \in Finished \cap Requests("New") :
          (ValidBody(reqs[c].body) /\ reqs[c].err = NoErr)
          => /\ Len(reqs[c].w) = 1
             /\ Status(c) = StatusCreated
             /\ \A d \in Finished \cap Requests("New") :
                   (d # c /\ Status(d) = StatusCreated)
                   => reqs[d].w[1].body.id # reqs[c].w[1].body.id
    /\ \A g \in Finished \cap Requests("GetList") :
          (Requests("New") \subseteq reqs[g].after /\ reqs[g].err = NoErr)
          => /\ Len(reqs[g].w) = 1
             /\ Status(g) = StatusOK
             /\ Len(reqs[g].w[1].body) =
                   Cardinality({ c \in Requests("New") : Status(c) = StatusCreated })

C4_Witness ==
    \E c, d \in Finished \cap Requests("New") :
    \E g \in Finished \cap Requests("GetList") :
        /\ c < d /\ c \notin reqs[d].after
        /\ Status(c) = StatusCreated /\ Status(d) = StatusCreated
        /\ {c, d} \subseteq reqs[g].after
        /\ Status(g) = StatusOK
        /\ Len(reqs[g].w[1].body) = 2

\* C5: when the storage create call returns an error for a decoded, valid
\* request, Create answers 500 with the general error envelope
\* {status:"error", error:<message>}, never 201.
C5_CreateStorageError ==
    \A r \in Finished \cap Requests("New") :
        (reqs[r].calls > 0 /\ reqs[r].err # NoErr)
        => reqs[r].w = << [status |-> StatusInternalServerError,
                           body |-> GeneralError(reqs[r].err)] >>

\* C6: GetById with a path identifier that does not parse as an integer
\* answers 400 and makes no storage call.
C6_NonIntegerId ==
    \A r \in Requests("GetById") :
        ParseInt(reqs[r].path).err # NoErr
        => /\ Done(r)
           /\ reqs[r].calls = 0
           /\ Len(reqs[r].w) = 1
           /\ Status(r) = StatusBadRequest

C6_Witness ==
    \E r \in Finished \cap Requests("GetById") :
        /\ reqs[r].path = <<"a", "b", "c">>
        /\ Status(r) = StatusBadRequest
        /\ reqs[r].calls = 0
        /\ store # <<>>

\* C7: a Create whose decoded Student violates a field rule answers 400
\* with the validation envelope naming each violated field and no other,
\* and makes no storage create call.
C7_ValidationRejects ==
    \A r \in Requests("New") :
        (reqs[r].body.text = "object" /\ Violated(reqs[r].body.obj) # {})
        => /\ Done(r)
           /\ reqs[r].calls = 0
           /\ Len(reqs[r].w) = 1
           /\ Status(r) = StatusBadRequest
           /\ reqs[r].w[1].body.status = "error"
           /\ { reqs[r].w[1].body.error[i] : i \in DOMAIN reqs[r].w[1].body.error }
                 = { FieldMsg(f) : f \in Violated(reqs[r].body.obj) }

C7_Witness ==
    \E r, n \in Finished \cap Requests("New") :
        /\ Violated(reqs[r].body.obj) = Fields
        /\ Len(reqs[r].w[1].body.error) = 3
        /\ Violated(reqs[n].body.obj) = {"name"}
        /\ reqs[n].w[1].body.error = <<FieldMsg("name")>>

\* C8: a Create with an empty body answers 400 with the message exactly
\* "empty body"; a body that fails to decode answers 400 with another
\* message; neither reaches validation or the storage create call.
C8_EmptyBody ==
    \A r \in Requests("New") :
        /\ reqs[r].body.text = "empty"
           => /\ Done(r)
              /\ reqs[r].w = << [status |-> StatusBadRequest,
                                 body |-> [status |-> "error",
                                           error |-> <<"empty body">>]] >>
              /\ ~reqs[r].validated /\ reqs[r].calls = 0
        /\ reqs[r].body.text = "truncated"
           => /\ Done(r)
              /\ Len(reqs[r].w) = 1
              /\ Status(r) = StatusBadRequest
              /\ reqs[r].w[1].body.status = "error"
              /\ reqs[r].w[1].body.error # <<"empty body">>
              /\ ~reqs[r].validated /\ reqs[r].calls = 0

C8_Witness ==
    \E r, t \in Finished \cap Requests("New") :
        /\ reqs[r].body = EmptyBody /\ Status(r) = StatusBadRequest
        /\ reqs[t].body = TruncatedBody /\ Status(t) = StatusBadRequest

\* C9: after the signal the process does not end while a request that was
\* in flight at the signal is still being served, unless the 5 second
\* timeout has fired.
C9_GracefulShutdown ==
    (exit # "running" /\ \E c \in atSignal : conns[c] = "cut") => ctxDone

\* C10: the persisted set changes only in the storage call of a Create that
\* has answered nothing before, succeeds and is then answered 201; the call
\* adds exactly one record and leaves every existing record as it was.
\* Every other step, of GetById, GetList or a Create answered 400, leaves
\* the persisted set as it was.
C10_Step ==
    /\ store' # store =>
          \E r \in Requests("New") :
             /\ reqs[r].pc = "create" /\ reqs[r].w = <<>>
             /\ reqs'[r].pc = "respond" /\ reqs'[r].err = NoErr
             /\ Len(store') = Len(store) + 1
             /\ SubSeq(store', 1, Len(store)) = store
             /\ store'[Len(store')].id = reqs'[r].lastId
    /\ \A r \in DOMAIN reqs' :
          (reqs'[r].pc = "done" /\ (r \notin DOMAIN reqs \/ reqs[r].pc # "done"))
          => /\ store' = store
             /\ (reqs'[r].calls > 0 /\ reqs'[r].kind = "New" /\ reqs'[r].err = NoErr)
                   <=> reqs'[r].w[1].status = StatusCreated

C10_Frame == [][C10_Step]_vars

C10_Witness ==
    /\ Len(store) = 2
    /\ store[1].id = 1 /\ store[2].id = 2
    /\ \E r \in Finished \cap Requests("New") : Status(r) = StatusBadRequest
    /\ \E r \in Finished \cap Requests("New") : Status(r) = StatusCreated
====
